---- MODULE Spec2Model ----
(***************************************************************************)
(* The crawl-and-download engine of src/src/scraper.py.                    *)
(*                                                                         *)
(* A Python str is a TLA+ string.  The asyncio event loop is a FIFO queue   *)
(* of ready callbacks; network input arrives at any moment and appends the *)
(* continuation of the coroutine that awaits it to that queue.             *)
(***************************************************************************)
EXTENDS Integers, Sequences, FiniteSets, Bags, TLC

\* ------------------------------------------------------------------------
\* Python str primitives
\* ------------------------------------------------------------------------

\* The characters that occur, in code point order (the order of str.__lt__).
Alphabet ==
    << " ", "\"", "#", "-", ".", "/", "0", "1", "2", "3", ":", ";", "=", "?",
       "A", "B", "C", "D", "E", "F", "G", "H", "I", "J", "K", "L", "M",
       "N", "O", "P", "Q", "R", "S", "T", "U", "V", "W", "X", "Y", "Z",
       "[", "\\", "]", "_",
       "a", "b", "c", "d", "e", "f", "g", "h", "i", "j", "k", "l", "m",
       "n", "o", "p", "q", "r", "s", "t", "u", "v", "w", "x", "y", "z" >>

\* ord(c), up to the order-preserving renumbering
Ord(c) == CHOOSE i \in 1..Len(Alphabet) : Alphabet[i] = c

UpperCase == { Alphabet[i] : i \in Ord("A")..Ord("Z") }

LowerCase == { Alphabet[i] : i \in Ord("a")..Ord("z") }

\* s[i-1] of Python for a 1-based i
Char(s, i) == SubSeq(s, i, i)

\* str.lower() on one character
LowerChar(c) == IF c \in UpperCase THEN Alphabet[Ord(c) - Ord("A") + Ord("a")] ELSE c

\* str.lower()
RECURSIVE Lower(_)
Lower(s) == IF s = "" THEN "" ELSE LowerChar(Head(s)) \o Lower(Tail(s))

\* s[i-1:] of Python for a 1-based i
From(s, i) == IF i > Len(s) THEN "" ELSE SubSeq(s, i, Len(s))

\* s[:i-1] of Python for a 1-based i
Upto(s, i) == IF i <= 1 THEN "" ELSE SubSeq(s, 1, i - 1)

\* s.find over a set of characters, from position start: the first index
\* holding one of them, 0 when there is none
Find(s, cs, start) ==
    LET hits == { i \in start..Len(s) : Char(s, i) \in cs }
    IN  IF hits = {} THEN 0 ELSE CHOOSE i \in hits : \A j \in hits : i <= j

\* s.rfind(c): the last index holding c, 0 when there is none
RFind(s, c) ==
    LET hits == { i \in 1..Len(s) : Char(s, i) = c }
    IN  IF hits = {} THEN 0 ELSE CHOOSE i \in hits : \A j \in hits : i >= j

\* c in s
Contains(s, c) == \E i \in 1..Len(s) : Char(s, i) = c

\* s.startswith(p)
StartsWith(s, p) == Len(s) >= Len(p) /\ SubSeq(s, 1, Len(p)) = p

\* s.split(c)
RECURSIVE Split(_, _)
Split(s, c) ==
    LET i == Find(s, {c}, 1)
    IN  IF i = 0 THEN << s >> ELSE << Upto(s, i) >> \o Split(From(s, i + 1), c)

\* c.join(parts)
RECURSIVE Join(_, _)
Join(parts, c) ==
    IF parts = << >> THEN ""
    ELSE IF Len(parts) = 1 THEN parts[1]
    ELSE parts[1] \o c \o Join(Tail(parts), c)

\* s.replace(c, d) for a character c
Replace(s, c, d) == Join(Split(s, c), d)

\* s.strip()
Strip(s) ==
    LET kept == { i \in 1..Len(s) : Char(s, i) \notin { " ", "\t", "\n" } }
    IN  IF kept = {} THEN ""
        ELSE SubSeq(s, CHOOSE i \in kept : \A j \in kept : i <= j,
                       CHOOSE i \in kept : \A j \in kept : i >= j)

\* the indices at which sub occurs in s
Occurrences(s, sub) ==
    { i \in 1..(Len(s) - Len(sub) + 1) : SubSeq(s, i, i + Len(sub) - 1) = sub }

\* the first index at which a and b differ, 0 when one is a prefix of the other
Mismatch(a, b) ==
    IF \A i \in 1..Len(a) : i <= Len(b) /\ Char(a, i) = Char(b, i) THEN 0
    ELSE IF \A i \in 1..Len(b) : i <= Len(a) /\ Char(a, i) = Char(b, i) THEN 0
    ELSE CHOOSE i \in 1..Len(a) :
            /\ Char(a, i) # Char(b, i)
            /\ \A j \in 1..(i - 1) : Char(a, j) = Char(b, j)

\* a < b on str: lexicographic by code point
StrLess(a, b) ==
    IF Mismatch(a, b) = 0 THEN Len(a) < Len(b)
    ELSE Ord(Char(a, Mismatch(a, b))) < Ord(Char(b, Mismatch(a, b)))


\* ------------------------------------------------------------------------
\* urllib.parse and os.path as the code uses them
\* ------------------------------------------------------------------------

\* uses_relative and uses_netloc of urllib.parse, cut to the schemes that occur
UsesRelative == { "", "ftp", "http", "https" }

UsesNetloc == { "", "ftp", "http", "https" }

\* scheme_chars of urllib.parse, cut to the alphabet
SchemeChars == LowerCase \cup UpperCase \cup { "0", "1", "2", "3", "-", "." }

\* the result of a urlparse that raised ValueError("Invalid IPv6 URL")
ValueError ==
    [ok |-> FALSE, scheme |-> "", netloc |-> "", path |-> "", query |-> "", fragment |-> ""]

\* whether url[:i-1] is a scheme, i the index of the first ":" (0 for none)
HasScheme(url, i) ==
    /\ i > 1
    /\ Char(url, 1) \in LowerCase \cup UpperCase
    /\ \A k \in 1..(i - 1) : Char(url, k) \in SchemeChars

\* the last step of urlsplit: the query is cut off the path
SplitQuery(scheme, netloc, rest, fragment, q) ==
    [ok |-> TRUE, scheme |-> scheme, netloc |-> netloc,
     path |-> IF q = 0 THEN rest ELSE Upto(rest, q),
     query |-> IF q = 0 THEN "" ELSE From(rest, q + 1),
     fragment |-> fragment]

CutQuery(scheme, netloc, rest, fragment) ==
    SplitQuery(scheme, netloc, rest, fragment, Find(rest, {"?"}, 1))

\* the fragment is cut off what follows the netloc
SplitFragment(scheme, netloc, rest, h) ==
    CutQuery(scheme, netloc, IF h = 0 THEN rest ELSE Upto(rest, h),
             IF h = 0 THEN "" ELSE From(rest, h + 1))

\* the check of the netloc's brackets
CheckNetloc(scheme, netloc, rest) ==
    IF Contains(netloc, "[") # Contains(netloc, "]") THEN ValueError
    ELSE SplitFragment(scheme, netloc, rest, Find(rest, {"#"}, 1))

\* _splitnetloc(url, 2), delim the index of the first of "/?#" (0 for none)
SplitNetloc(scheme, rest, delim) ==
    CheckNetloc(scheme,
                IF delim = 0 THEN From(rest, 3) ELSE SubSeq(rest, 3, delim - 1),
                IF delim = 0 THEN "" ELSE From(rest, delim))

\* urlsplit after the scheme
AfterScheme(scheme, rest) ==
    IF StartsWith(rest, "//") THEN SplitNetloc(scheme, rest, Find(rest, {"/", "?", "#"}, 3))
    ELSE SplitFragment(scheme, "", rest, Find(rest, {"#"}, 1))

SplitScheme(url, default, i) ==
    AfterScheme(IF HasScheme(url, i) THEN Lower(Upto(url, i)) ELSE default,
                IF HasScheme(url, i) THEN From(url, i + 1) ELSE url)

\* urlparse(url, scheme=default): scheme, netloc, path, query, fragment
urlparse(url, default) == SplitScheme(url, default, Find(url, {":"}, 1))

\* urlunparse
urlunparse(scheme, netloc, path, query, fragment) ==
    (IF scheme # "" THEN scheme \o ":" ELSE "")
    \o (IF netloc # "" \/ (scheme # "" /\ scheme \in UsesNetloc /\ ~StartsWith(path, "//"))
        THEN "//" \o netloc \o (IF path # "" /\ Char(path, 1) # "/" THEN "/" ELSE "") \o path
        ELSE path)
    \o (IF query # "" THEN "?" \o query ELSE "")
    \o (IF fragment # "" THEN "#" \o fragment ELSE "")

\* segments[1:-1] = filter(None, segments[1:-1])
DropEmptyInner(segs) ==
    IF Len(segs) <= 2 THEN segs
    ELSE << segs[1] >>
         \o SelectSeq(SubSeq(segs, 2, Len(segs) - 1), LAMBDA s : s # "")
         \o << segs[Len(segs)] >>

\* the loop of urljoin that removes the dot segments
RECURSIVE Resolve(_, _)
Resolve(segs, acc) ==
    IF segs = << >> THEN acc
    ELSE IF segs[1] = ".."
         THEN Resolve(Tail(segs),
                      IF acc = << >> THEN acc ELSE SubSeq(acc, 1, Len(acc) - 1))
    ELSE IF segs[1] = "." THEN Resolve(Tail(segs), acc)
    ELSE Resolve(Tail(segs), Append(acc, segs[1]))

\* base_parts of urljoin: the last item, when it is no directory, is dropped
BaseParts(parts) ==
    IF parts[Len(parts)] # "" THEN SubSeq(parts, 1, Len(parts) - 1) ELSE parts

\* segments of urljoin
Segments(bpath, path) ==
    IF StartsWith(path, "/") THEN Split(path, "/")
    ELSE DropEmptyInner(BaseParts(Split(bpath, "/")) \o Split(path, "/"))

\* '/'.join(resolved_path) or '/'
JoinResolved(resolved) == IF Join(resolved, "/") = "" THEN "/" ELSE Join(resolved, "/")

\* the path urljoin gives the result, from its segments
ResolvedPath(segs) ==
    JoinResolved(IF segs[Len(segs)] \in { ".", ".." }
                 THEN Append(Resolve(segs, << >>), "")
                 ELSE Resolve(segs, << >>))

\* urljoin once both URLs are parsed
JoinParsed(url, b, u) ==
    IF ~b.ok \/ ~u.ok THEN [ok |-> FALSE, url |-> ""]
    ELSE IF u.scheme # b.scheme \/ u.scheme \notin UsesRelative
         THEN [ok |-> TRUE, url |-> url]
    ELSE IF u.scheme \in UsesNetloc /\ u.netloc # ""
         THEN [ok |-> TRUE,
               url |-> urlunparse(u.scheme, u.netloc, u.path, u.query, u.fragment)]
    ELSE IF u.path = ""
         THEN [ok |-> TRUE,
               url |-> urlunparse(u.scheme,
                                  IF u.scheme \in UsesNetloc THEN b.netloc ELSE u.netloc,
                                  b.path,
                                  IF u.query = "" THEN b.query ELSE u.query,
                                  u.fragment)]
    ELSE [ok |-> TRUE,
          url |-> urlunparse(u.scheme,
                             IF u.scheme \in UsesNetloc THEN b.netloc ELSE u.netloc,
                             ResolvedPath(Segments(b.path, u.path)),
                             u.query, u.fragment)]

\* urlparse(url, bscheme) of urljoin
ParseRelative(url, b) == urlparse(url, b.scheme)

\* urljoin(base, url): the str it returns as .url, or ok = FALSE when it raises
\* the ValueError of urlparse
urljoin(base, url) ==
    IF base = "" THEN [ok |-> TRUE, url |-> url]
    ELSE IF url = "" THEN [ok |-> TRUE, url |-> base]
    ELSE JoinParsed(url, urlparse(base, ""), ParseRelative(url, urlparse(base, "")))

\* os.path.splitext(p)[1]: the extension of the last path component; a
\* component whose only dots are leading ones has none
splitext(p) ==
    LET sep  == RFind(p, "/")
        dot  == RFind(p, ".")
    IN  IF dot <= sep THEN ""
        ELSE IF \A j \in (sep + 1)..dot : Char(p, j) = "." THEN ""
        ELSE From(p, dot)

\* ------------------------------------------------------------------------
\* The web the program runs against
\* ------------------------------------------------------------------------

\* the largest --sitemap-depth tried
MaxDepth == 3

\* what a server answers: status, whether Content-Type holds text/html, the
\* href of every <a href> of the body in document order, and the number of
\* 8192-byte chunks of the body
Html(hrefs) ==
    [status |-> 200, html |-> TRUE, hrefs |-> hrefs, chunks |-> 1, disposition |-> ""]

Binary(n) ==
    [status |-> 200, html |-> FALSE, hrefs |-> << >>, chunks |-> n, disposition |-> ""]

NotFound ==
    [status |-> 404, html |-> FALSE, hrefs |-> << >>, chunks |-> 1, disposition |-> ""]

\* a file of one chunk sent with a Content-Disposition header
Attachment(header) ==
    [status |-> 200, html |-> FALSE, hrefs |-> << >>, chunks |-> 1, disposition |-> header]

\* a 200 whose Content-Type is not text/html and whose body holds anchors
Plain(hrefs) ==
    [status |-> 200, html |-> FALSE, hrefs |-> hrefs, chunks |-> 1, disposition |-> ""]

\* an error page: a 404 with an HTML body that holds anchors
Gone(hrefs) ==
    [status |-> 404, html |-> TRUE, hrefs |-> hrefs, chunks |-> 1, disposition |-> ""]

Sites == { "sample", "cycle", "race", "query", "fragment", "bare", "scheme",
           "files", "malformed", "badseed", "plain", "gone", "collide",
           "dup", "nohost", "header", "quoted" }

\* the URL the user enters
Seed(s) ==
    CASE s = "query"    -> "https://example.com/p?x=1"
      [] s = "fragment" -> "https://example.com/p#top"
      [] s = "bare"     -> "https://example.com"
      [] s = "files"    -> "https://example.com/dl/"
      [] s = "nohost"   -> "example.com/page"
      [] OTHER          -> "https://example.com/"

Pages(s) ==
    CASE s = "sample" ->
           ( "https://example.com/" :>
                Html(<< "https://example.com/about", "https://other.com/", "report.pdf" >>)
          @@ "https://example.com/about" :> Html(<< "/", "team" >>)
          @@ "https://example.com/team" :> Html(<< "/about" >>)
          @@ "https://example.com/report.pdf" :> Binary(1)
          @@ "https://other.com/" :> Html(<< "https://example.com/hidden" >>) )
      [] s = "cycle" ->
           ( "https://example.com/" :> Html(<< "/a", "a", "/b", "/", "#top" >>)
          @@ "https://example.com/a" :> Html(<< "/b", "/" >>)
          @@ "https://example.com/b" :> Html(<< "/a", "/c", "/b" >>)
          @@ "https://example.com/c" :> Html(<< "/a" >>) )
      [] s = "race" ->
           ( "https://example.com/" :> Html(<< "/a", "/b" >>)
          @@ "https://example.com/a" :> Html(<< "/c" >>)
          @@ "https://example.com/c" :> Html(<< "/x" >>)
          @@ "https://example.com/b" :> Html(<< "/x" >>)
          @@ "https://example.com/x" :> Html(<< "/y" >>)
          @@ "https://example.com/y" :> Html(<< >>) )
      [] s = "query" ->
           ( "https://example.com/p?x=1" :> Html(<< "/p", "?x=2" >>)
          @@ "https://example.com/p" :> Html(<< "/p?x=1", "/q" >>)
          @@ "https://example.com/q" :> Html(<< >>) )
      [] s = "fragment" ->
           ( "https://example.com/p" :> Html(<< "/p", "/q#sec", "#top" >>)
          @@ "https://example.com/q" :> Html(<< >>) )
      [] s = "bare" ->
           ( "https://example.com" :> Html(<< "/", "a" >>)
          @@ "https://example.com/" :> Html(<< "/", "a" >>)
          @@ "https://example.com/a" :> Html(<< >>) )
      [] s = "scheme" ->
           ( "https://example.com/" :>
                Html(<< "http://example.com/x", "//other.com/z", "https://example.com:1/p" >>)
          @@ "http://example.com/x" :> Html(<< "q", "https://other.com/" >>)
          @@ "http://example.com/q" :> Html(<< >>)
          @@ "https://other.com/z" :> Html(<< "https://example.com/w" >>)
          @@ "https://other.com/" :> Html(<< >>)
          @@ "https://example.com:1/p" :> Html(<< >>) )
      [] s = "files" ->
           ( "https://example.com/dl/" :> Html(<< "a.pdf", "b.PDF", "c.html", "d.zip?x=1" >>)
          @@ "https://example.com/dl/a.pdf" :> Binary(1)
          @@ "https://example.com/dl/c.html" :> Html(<< >>)
          @@ "https://example.com/dl/d.zip?x=1" :> Binary(1)
          @@ "https://example.com/dl/d.zip" :> Binary(1) )
      [] s = "malformed" ->
           ( "https://example.com/" :> Html(<< "/b", "/c", "ftp://example.com/e.zip" >>)
          @@ "https://example.com/b" :> Html(<< "/x", "//[", "/y" >>)
          @@ "https://example.com/c" :> Html(<< >>)
          @@ "https://example.com/x" :> Html(<< >>)
          @@ "https://example.com/y" :> Html(<< >>) )
      [] s = "badseed" ->
           ( "https://example.com/" :> Html(<< "a.pdf", "/c", "//[", "b.pdf", "/d" >>)
          @@ "https://example.com/a.pdf" :> Binary(1)
          @@ "https://example.com/b.pdf" :> Binary(1)
          @@ "https://example.com/c" :> Html(<< "/d" >>)
          @@ "https://example.com/d" :> Html(<< >>) )
      [] s = "plain" ->
           ( "https://example.com/" :> Plain(<< "a.pdf" >>)
          @@ "https://example.com/a.pdf" :> Binary(1) )
      [] s = "gone" ->
           ( "https://example.com/" :> Gone(<< "a.pdf" >>)
          @@ "https://example.com/a.pdf" :> Binary(1) )
      [] s = "collide" ->
           ( "https://example.com/" :> Html(<< "x/a.pdf", "y/a.pdf" >>)
          @@ "https://example.com/x/a.pdf" :> Binary(2)
          @@ "https://example.com/y/a.pdf" :> Binary(1) )
      [] s = "dup" ->
           ( "https://example.com/" :> Html(<< "a.pdf", "./a.pdf" >>)
          @@ "https://example.com/a.pdf" :> Binary(1) )
      [] s = "nohost" ->
           ( "https://example.com/page" :> Html(<< "/a" >>)
          @@ "https://example.com/a" :> Html(<< >>) )
      [] s = "header" ->
           ( "https://example.com/" :> Html(<< "a.pdf", "b.pdf" >>)
          @@ "https://example.com/a.pdf" :>
                Attachment("attachment; filename=../../evil.pdf")
          @@ "https://example.com/b.pdf" :> Attachment("attachment; filename=..") )
      [] s = "quoted" ->
           ( "https://example.com/" :> Html(<< "c.pdf", "d.pdf" >>)
          @@ "https://example.com/c.pdf" :>
                Attachment("attachment; filename=\"x\\y.pdf\"; size=1")
          @@ "https://example.com/d.pdf" :> Attachment("inline") )

\* the values of --sitemap-depth tried against a site; the sites with
\* concurrent downloads are not crawled beyond their seed
Depths(s) ==
    IF s \in { "files", "collide", "dup", "header", "quoted" } THEN { 0 } ELSE 0..MaxDepth

\* the request aiohttp sends for url: a fragment is not sent
RequestTarget(url) ==
    LET h == Find(url, {"#"}, 1) IN IF h = 0 THEN url ELSE Upto(url, h)

\* the response of the server to session.get(url), when one arrives
Serve(s, url) ==
    IF RequestTarget(url) \in DOMAIN Pages(s) THEN Pages(s)[RequestTarget(url)] ELSE NotFound

\* ------------------------------------------------------------------------
\* Pure parts of scraper.py
\* ------------------------------------------------------------------------

TARGET_EXTENSIONS ==
    { ".pdf", ".jpg", ".jpeg", ".png", ".gif", ".doc", ".docx", ".xls", ".xlsx",
      ".ppt", ".pptx", ".zip", ".rar" }

DOWNLOAD_DIR == "downloads"

\* the guard without its depth check
ShouldSkip_NoDepth(url, visited, current_depth, depth_limit) == url \in visited

\* the guard without its visited check
ShouldSkip_NoVisited(url, visited, current_depth, depth_limit) ==
    current_depth > depth_limit

\* the guard that ends a branch before it touches anything
ShouldSkip(url, visited, current_depth, depth_limit) ==
    current_depth > depth_limit \/ url \in visited

\* the link filter without the comparison of the netloc
IsInternal_AnyHost(parsed, domain) == parsed.fragment = ""

\* "an internal link (same domain) and not an anchor"
IsInternal(parsed, domain) == parsed.netloc = domain /\ parsed.fragment = ""

\* the normalized URL of a parsed link
Normalize(parsed) == parsed.scheme \o "://" \o parsed.netloc \o parsed.path

\* ------------------------------------------------------------------------
\* The anchors of a run.  The webs are finite, so the anchors the loops meet
\* are known from the webs alone: urljoin and urlparse are applied to them
\* once, and the results are read where the code calls the functions.
\* ------------------------------------------------------------------------

\* one anchor as the loops see it: absolute_url and its parse, ok = FALSE when
\* urljoin or urlparse raises
MakeLink(joined, parsed) ==
    [ok |-> parsed.ok, url |-> IF joined.ok THEN joined.url ELSE "", parsed |-> parsed]

\* urlparse(absolute_url), a failed urljoin having raised before it
ParseJoined(joined) ==
    MakeLink(joined, IF joined.ok THEN urlparse(joined.url, "") ELSE ValueError)

Link(url, href) == ParseJoined(urljoin(url, href))

\* the anchors of a page requested as url, in document order
RECURSIVE LinksOf(_, _)
LinksOf(url, hrefs) ==
    IF hrefs = << >> THEN << >>
    ELSE << Link(url, Head(hrefs)) >> \o LinksOf(url, Tail(hrefs))

\* the hrefs of the page a request for url is answered with
Anchors(s, url) == Serve(s, url).hrefs

\* the normalized URLs of the links that resolve
NormalizedOf(links) ==
    { Normalize(links[i].parsed) : i \in { j \in DOMAIN links : links[j].ok } }

OneHop(s, urls) == urls \cup UNION { NormalizedOf(LinksOf(u, Anchors(s, u))) : u \in urls }

\* the URLs a task of web s can be created for within k hops, whatever the
\* netloc, the fragment and the visited set
RECURSIVE TaskUrls(_, _)
TaskUrls(s, k) == IF k = 0 THEN {Seed(s)} ELSE OneHop(s, TaskUrls(s, k - 1))

\* the resolved anchors of every page a task of web s can request
Rows(s, urls) == { << s, u, LinksOf(u, Anchors(s, u)) >> : u \in urls }

LinkTable == UNION { Rows(s, TaskUrls(s, MaxDepth + 2)) : s \in Sites }

\* the URLs of a table of resolved anchors
UrlsIn(table) ==
    { r[2] : r \in table }
        \cup UNION { { r[3][i].url : i \in { j \in DOMAIN r[3] : r[3][j].ok } } : r \in table }

KnownUrls == UrlsIn(LinkTable)

ParseTable == { << u, urlparse(u, "") >> : u \in KnownUrls }

\* for each URL of a set, the number of URLs of the set that are less than it
RanksIn(urls) == { << u, Cardinality({ v \in urls : StrLess(v, u) }) >> : u \in urls }

RankTable == RanksIn(KnownUrls)

\* the position of url in ranks
Rank(ranks, url) == (CHOOSE r \in ranks : r[1] = url)[2]

\* sorted(list(S)) by the positions in ranks: the i-th element has i - 1
\* elements before it
SortedBy(S, ranks) ==
    [i \in 1..Cardinality(S) |->
        CHOOSE x \in S : Cardinality({ y \in S : Rank(ranks, y) < Rank(ranks, x) }) = i - 1]

\* sorted(list(S)) for a set of known URLs
Sorted(S) == SortedBy(S, RankTable)

\* soup.find_all('a', href=True) of the page web s answers url with, each
\* anchor resolved against url
PageLinks(s, url) == (CHOOSE r \in LinkTable : r[1] = s /\ r[2] = url)[3]

\* urlparse(url)
Parsed(url) == (CHOOSE r \in ParseTable : r[1] = url)[2]

\* the anchors a for loop gets through: those before the first one that raises
Processed(links) ==
    SubSeq(links, 1, CHOOSE n \in 0..Len(links) :
                        /\ \A i \in 1..n : links[i].ok
                        /\ n = Len(links) \/ ~links[n + 1].ok)

\* whether a for loop over links ends by raising
Raises(links) == \E i \in DOMAIN links : ~links[i].ok

\* whether the crawl loop creates a task for a parsed link
CrawlTarget(parsed, domain, visited) ==
    IsInternal(parsed, domain) /\ Normalize(parsed) \notin visited

\* the anchors the crawl loop creates a task for
CrawlTargets(links, domain, visited) ==
    SelectSeq(Processed(links), LAMBDA l : CrawlTarget(l.parsed, domain, visited))

\* The for loop over the anchors of a crawled page: the URLs it creates a task
\* for, in order, and whether it ended by raising.  No task runs while the
\* loop does, so the visited set it reads does not change.
CrawlLoop(links, domain, visited) ==
    [targets |-> [i \in 1..Len(CrawlTargets(links, domain, visited)) |->
                     Normalize(CrawlTargets(links, domain, visited)[i].parsed)],
     raised  |-> Raises(links)]

\* whether the download scan dispatches a download for a resolved link
IsDownloadTarget(parsed) ==
    /\ Lower(splitext(parsed.path)) \in TARGET_EXTENSIONS
    /\ parsed.scheme \in { "http", "https" }

\* the anchors the download scan creates a task for
ScanTargets(links) == SelectSeq(Processed(links), LAMBDA l : IsDownloadTarget(l.parsed))

\* The for loop over the anchors of the scanned page: the URLs it creates a
\* download task for, in order, and whether it ended by raising.
ScanLoop(links) ==
    [targets |-> [i \in 1..Len(ScanTargets(links)) |-> ScanTargets(links)[i].url],
     raised  |-> Raises(links)]

\* os.path.basename
basename(path) == From(path, RFind(path, "/") + 1)

\* the provisional file name of a download; rnd is os.urandom(4).hex()
NameOf(path, rnd) ==
    IF basename(path) # "" THEN basename(path)
    ELSE "downloaded_file_" \o rnd \o splitext(path)

DerivedName(url, rnd) == NameOf(Parsed(url).path, rnd)

\* target_dir / filename: pathlib drops a component "."
JoinPath(dir, name) == IF name = "." THEN dir ELSE dir \o "/" \o name

\* Where the group of the pattern starts when its "filename=" ends before
\* index i.  The adjacent literals of the source make the pattern
\* filename=[?]?([^\n;]+): an optional "?", then everything up to a newline
\* or a semicolon, quotes included; the "?" is given back when nothing the
\* group can take follows it.
GroupStart(header, i) ==
    IF /\ i + 1 <= Len(header) /\ Char(header, i) = "?"
       /\ Char(header, i + 1) \notin { "\n", ";" }
    THEN i + 1 ELSE i

\* whether the pattern matches where "filename=" occurs at index p
MatchesAt(header, p) ==
    /\ p + 9 <= Len(header)
    /\ Char(header, p + 9) \notin { "\n", ";" }

\* group(1) of the match whose "filename=" ends before index i
Group(header, i) ==
    LET from == GroupStart(header, i)
        stop == Find(header, { "\n", ";" }, from)
    IN  IF stop = 0 THEN From(header, from) ELSE SubSeq(header, from, stop - 1)

\* re.search: the leftmost match, if any
fname_match(header) ==
    LET ps == { p \in Occurrences(header, "filename=") : MatchesAt(header, p) }
    IN  IF ps = {} THEN [found |-> FALSE, group |-> ""]
        ELSE [found |-> TRUE,
              group |-> Group(header, (CHOOSE p \in ps : \A q \in ps : p <= q) + 9)]

\* "Basic sanitization" of the file name of the header
Sanitize(name) == Replace(Replace(Strip(name), "/", "_"), "\\", "_")

\* The file name the Content-Disposition header gives a download; "" when
\* the pattern does not match or nothing is left of the name.
header_filename(header) ==
    IF fname_match(header).found THEN Sanitize(fname_match(header).group) ELSE ""

\* the Content-Disposition headers of the webs, each with its file name
HeaderTable ==
    { << h, header_filename(h) >> :
        h \in UNION { { Pages(s)[u].disposition : u \in DOMAIN Pages(s) } : s \in Sites }
               \ { "" } }

\* the file name of a response's header, "" when it has no such header
HeaderName(header) ==
    IF header = "" THEN "" ELSE (CHOOSE r \in HeaderTable : r[1] = header)[2]

\* the path a download writes to once the headers are in: the name of the
\* header under the target directory if it gives one, else the provisional path
FinalPath(provisional, header) ==
    IF HeaderName(header) = "" THEN provisional
    ELSE JoinPath(DOWNLOAD_DIR, HeaderName(header))

\* whether open(filepath, 'wb') is given a directory: the target directory,
\* which download_file has created, or its parent
IsDirectory(path) == path \in { DOWNLOAD_DIR, DOWNLOAD_DIR \o "/.." }

\* ------------------------------------------------------------------------
\* State
\* ------------------------------------------------------------------------

VARIABLES
    site,             \* the web the run is against
    max_depth,        \* --sitemap-depth
    phase,            \* where scrape_website is: "text", "scan", "crawl", "returned"
    scraped_markdown, \* first component of the result
    sitemap_data,     \* second component of the result
    tasks,            \* the coroutines: tasks[1] is scrape_website itself
    ready,            \* the event loop's queue of ready callbacks
    visited_urls,     \* the VisitedSet of the generate_sitemap call
    gets,             \* bag of the session.get calls of crawl branches: URL and depth
    files,            \* the file system under DOWNLOAD_DIR: path -> chunks written
    tally,            \* the success/fail count of the download scan
    session_open,     \* whether the download scan's ClientSession is open
    scan_got,         \* how the download scan's request of the page went
    cli               \* what cli.py has told the user and done about sitemap.json

vars == << site, max_depth, phase, scraped_markdown, sitemap_data, tasks, ready,
           visited_urls, gets, files, tally, session_open, scan_got, cli >>

\* the task that runs scrape_website, and with it the root crawl branch
Main == 1

start_url == Seed(site)

base_domain == Parsed(start_url).netloc

\* A coroutine.  st: "new" created and not yet run, "io" awaiting the network,
\* "queued" its input has arrived, "gather" awaiting its children, "done".
\* got records how its requests have gone: "none", "served", or what failed.
NewTask(kind, url, depth, parent) ==
    [kind |-> kind, url |-> url, depth |-> depth, parent |-> parent, st |-> "new",
     kids |-> << >>, waiting |-> 0, ret |-> {}, result |-> "none",
     filepath |-> "", provisional |-> "", opened |-> FALSE, pos |-> 0, eof |-> FALSE,
     got |-> "none"]

Event(ev, t, resp) == [ev |-> ev, t |-> t, resp |-> resp]

Range(f) == { f[i] : i \in DOMAIN f }

\* asyncio.create_task for each target: the new tasks and their first steps
Spawn(kind, targets, depth, parent) ==
    [i \in 1..Len(targets) |-> NewTask(kind, targets[i], depth, parent)]

SpawnEvents(first, n) == [i \in 1..n |-> Event("start", first + i, "-")]

\* whether the parent of t awaits t in asyncio.gather
InGather(ts, t) ==
    /\ ts[t].parent # 0
    /\ ts[ts[t].parent].st = "gather"
    /\ t \in Range(ts[ts[t].parent].kids)

\* a finished task that tells nobody
NotifyParent_Never(ts, q, t) == q

\* the queue after task t of ts has finished: gather's done callback is
\* scheduled when the parent gathers it
NotifyParent(ts, q, t) ==
    IF InGather(ts, t) THEN Append(q, Event("childdone", t, "-")) ELSE q

Running == phase \in { "scan", "crawl" }

Init ==
    /\ site \in Sites
    /\ max_depth \in Depths(site)
    /\ phase = "text"
    /\ scraped_markdown = "None"
    /\ sitemap_data = << >>
    /\ tasks = << [NewTask("main", Seed(site), 0, 0) EXCEPT !.st = "io"] >>
    /\ ready = << >>
    /\ visited_urls = {}
    /\ gets = EmptyBag
    /\ files = << >>
    /\ tally = [done |-> FALSE, n |-> 0, success |-> 0, fail |-> 0]
    /\ session_open = FALSE
    /\ scan_got = "none"
    /\ cli = [done |-> FALSE, said |-> {}, save |-> "none"]

\* ------------------------------------------------------------------------
\* The sitemap crawl
\* ------------------------------------------------------------------------

\* a branch that does not count its own URL
OwnLinks_None(url) == {}

\* "internal_links = {url}": what a branch that took its URL returns at least,
\* whatever becomes of its request
OwnLinks(url) == {url}

\* "return internal_links" of branch t with the task table ts and the queue q.
\* The root branch runs inside generate_sitemap, which then returns the
\* sorted list to scrape_website, which returns.
ReturnLinks(ts, q, t, links) ==
    /\ tasks' = [ts EXCEPT ![t].st = "done", ![t].ret = links]
    /\ IF t = Main
       THEN /\ phase' = "returned"
            /\ sitemap_data' = Sorted(links)
            /\ ready' = q
       ELSE /\ ready' = NotifyParent(ts, q, t)
            /\ UNCHANGED << phase, sitemap_data >>

\* a seed the crawl accepts whatever its netloc
InvalidSeed_Never(domain) == FALSE

\* "if not base_domain": the seed has no netloc
InvalidSeed(domain) == domain = ""

\* generate_sitemap up to its first await: the netloc check, the fresh
\* visited set and the root branch up to session.get
generate_sitemap(ts, q) ==
    IF InvalidSeed(base_domain)
    THEN /\ phase' = "returned"
         /\ sitemap_data' = << >>
         /\ tasks' = [ts EXCEPT ![Main].st = "done", ![Main].kids = << >>]
         /\ ready' = q
         /\ UNCHANGED << visited_urls, gets >>
    ELSE IF ShouldSkip(start_url, {}, 0, max_depth)
    THEN /\ phase' = "returned"
         /\ sitemap_data' = Sorted({})
         /\ tasks' = [ts EXCEPT ![Main].st = "done", ![Main].kids = << >>]
         /\ ready' = q
         /\ visited_urls' = {}
         /\ UNCHANGED gets
    ELSE /\ phase' = "crawl"
         /\ visited_urls' = {start_url}
         /\ gets' = gets (+) SetToBag({[url |-> start_url, depth |-> 0]})
         /\ tasks' = [ts EXCEPT ![Main].st = "io", ![Main].kids = << >>,
                                ![Main].waiting = 0, ![Main].ret = {},
                                ![Main].got = "none"]
         /\ ready' = q
         /\ UNCHANGED sitemap_data

\* The first step of a crawl task: the depth and visited checks, the insertion
\* into the visited set and the call of session.get, with no await between.
CrawlStart ==
    /\ Running /\ ready # << >>
    /\ Head(ready).ev = "start" /\ tasks[Head(ready).t].kind = "crawl"
    /\ LET t == Head(ready).t
           url == tasks[t].url
       IN  IF ShouldSkip(url, visited_urls, tasks[t].depth, max_depth)
           THEN /\ ReturnLinks(tasks, Tail(ready), t, {})
                /\ UNCHANGED << visited_urls, gets >>
           ELSE /\ visited_urls' = visited_urls \cup {url}
                /\ gets' = gets (+) SetToBag({[url |-> url, depth |-> tasks[t].depth]})
                /\ tasks' = [tasks EXCEPT ![t].st = "io"]
                /\ ready' = Tail(ready)
                /\ UNCHANGED << phase, sitemap_data >>
    /\ UNCHANGED << cli, site, max_depth, scraped_markdown, files, tally, session_open,
                    scan_got >>

\* whether t is a crawl branch: a crawl task, or the root inside Main
IsBranch(t) == tasks[t].kind = "crawl" \/ (t = Main /\ phase = "crawl")

\* A branch resumes with the answer to session.get: an error or a page that is
\* not HTML ends it; the anchors of an HTML page become child tasks, which
\* the branch gathers unless the loop raised.
CrawlResume ==
    /\ Running /\ ready # << >>
    /\ Head(ready).ev = "resume" /\ IsBranch(Head(ready).t)
    /\ LET t    == Head(ready).t
           url  == tasks[t].url
           page == Serve(site, url)
           loop == CrawlLoop(PageLinks(site, url), base_domain, visited_urls)
           n    == Len(loop.targets)
           kids == Spawn("crawl", loop.targets, tasks[t].depth + 1, t)
           q    == Tail(ready) \o SpawnEvents(Len(tasks), n)
           ts   == [tasks EXCEPT ![t].got = Head(ready).resp]
       IN  IF Head(ready).resp # "served" \/ page.status # 200 \/ ~page.html
           THEN ReturnLinks(ts, Tail(ready), t, OwnLinks(url))
           ELSE IF loop.raised
           THEN ReturnLinks(ts \o kids, q, t, OwnLinks(url))
           ELSE IF n = 0
           THEN ReturnLinks(ts, Tail(ready), t, OwnLinks(url))
           ELSE /\ tasks' = [ts EXCEPT ![t].st = "gather",
                                          ![t].kids = [i \in 1..n |-> Len(tasks) + i],
                                          ![t].waiting = n] \o kids
                /\ ready' = q
                /\ UNCHANGED << phase, sitemap_data >>
    /\ UNCHANGED << cli, site, max_depth, scraped_markdown, visited_urls, gets, files, tally,
                    session_open, scan_got >>

\* gather's done callback for one child: the last one wakes the parent
ChildDone ==
    /\ Running /\ ready # << >>
    /\ Head(ready).ev = "childdone"
    /\ LET p == tasks[Head(ready).t].parent
       IN  /\ tasks' = [tasks EXCEPT ![p].waiting = @ - 1]
           /\ ready' = IF tasks[p].waiting = 1
                       THEN Append(Tail(ready), Event("wake", p, "-"))
                       ELSE Tail(ready)
    /\ UNCHANGED << cli, site, max_depth, phase, scraped_markdown, sitemap_data, visited_urls,
                    gets, files, tally, session_open, scan_got >>

\* a branch that drops what its children returned
Gathered_OwnOnly(ts, t) == {ts[t].url}

\* the union of the sets the gathered children returned, with the own URL
Gathered(ts, t) == OwnLinks(ts[t].url) \cup UNION { ts[k].ret : k \in Range(ts[t].kids) }

\* A branch resumes from asyncio.gather and returns the union.
CrawlWake ==
    /\ Running /\ ready # << >>
    /\ Head(ready).ev = "wake" /\ IsBranch(Head(ready).t)
    /\ ReturnLinks(tasks, Tail(ready), Head(ready).t, Gathered(tasks, Head(ready).t))
    /\ UNCHANGED << cli, site, max_depth, scraped_markdown, visited_urls, gets, files, tally,
                    session_open, scan_got >>

\* ------------------------------------------------------------------------
\* Text extraction and the download scan
\* ------------------------------------------------------------------------

\* whether aiohttp accepts url for a request: a URL without a host makes
\* session.get raise InvalidURL before anything is sent
HasHost(url) == Parsed(url).netloc # ""

\* crawl4ai answers: a result with markdown, one without, or an exception.
\* scrape_website goes on to open the scan's session and to await session.get;
\* when session.get raises at once the scan is over and generate_sitemap is
\* entered.
TextDone ==
    /\ phase = "text"
    /\ \E r \in { "markdown", "empty", "raise" } :
          scraped_markdown' = IF r = "markdown" THEN "text" ELSE "None"
    /\ IF HasHost(start_url)
       THEN /\ phase' = "scan"
            /\ session_open' = TRUE
            /\ UNCHANGED << sitemap_data, tasks, ready, visited_urls, gets, scan_got >>
       ELSE /\ scan_got' = "invalid"
            /\ session_open' = FALSE
            /\ generate_sitemap(tasks, ready)
    /\ UNCHANGED << cli, site, max_depth, files, tally >>

\* The network answers the request a coroutine awaits, or fails it.  The
\* continuation goes to the back of the ready queue.
IOArrives ==
    /\ Running
    /\ \E t \in DOMAIN tasks, resp \in { "served", "error" } :
          /\ tasks[t].st = "io"
          /\ tasks' = [tasks EXCEPT ![t].st = "queued"]
          /\ ready' = Append(ready, Event("resume", t, resp))
    /\ UNCHANGED << cli, site, max_depth, phase, scraped_markdown, sitemap_data, visited_urls,
                    gets, files, tally, session_open, scan_got >>

\* scrape_website resumes with the answer for the scanned page.  Anything but
\* a 200 ends the scan; otherwise every target link gets a download task, and
\* the tasks are gathered unless the loop raised or found nothing.  Leaving the
\* scan closes its session and enters generate_sitemap.
ScanResume ==
    /\ phase = "scan" /\ ready # << >>
    /\ Head(ready).ev = "resume" /\ Head(ready).t = Main
    /\ LET page == Serve(site, start_url)
           loop == ScanLoop(PageLinks(site, start_url))
           n    == Len(loop.targets)
           kids == Spawn("download", loop.targets, 0, Main)
           q    == Tail(ready) \o SpawnEvents(Len(tasks), n)
       IN  IF Head(ready).resp # "served" \/ page.status # 200
           THEN /\ generate_sitemap(tasks, Tail(ready))
                /\ session_open' = FALSE
           ELSE IF loop.raised
           THEN /\ generate_sitemap(tasks \o kids, q)
                /\ session_open' = FALSE
           ELSE IF n = 0
           THEN /\ generate_sitemap(tasks, Tail(ready))
                /\ session_open' = FALSE
           ELSE /\ tasks' = [tasks EXCEPT ![Main].st = "gather",
                                          ![Main].kids = [i \in 1..n |-> Len(tasks) + i],
                                          ![Main].waiting = n] \o kids
                /\ ready' = q
                /\ UNCHANGED << phase, sitemap_data, visited_urls, gets, session_open >>
    /\ scan_got' = Head(ready).resp
    /\ UNCHANGED << cli, site, max_depth, scraped_markdown, files, tally >>

\* the tally of the gathered results
Tally(results) ==
    LET success_count == Cardinality({ i \in DOMAIN results : results[i] = "True" })
    IN  [done |-> TRUE, n |-> Len(results), success |-> success_count,
         fail |-> Len(results) - success_count]

\* scrape_website resumes from asyncio.gather, counts, and goes on to the crawl.
ScanWake ==
    /\ phase = "scan" /\ ready # << >>
    /\ Head(ready).ev = "wake" /\ Head(ready).t = Main
    /\ tally' = Tally([i \in DOMAIN tasks[Main].kids |-> tasks[tasks[Main].kids[i]].result])
    /\ session_open' = FALSE
    /\ generate_sitemap(tasks, Tail(ready))
    /\ UNCHANGED << cli, site, max_depth, scraped_markdown, files, scan_got >>

\* ------------------------------------------------------------------------
\* download_file
\* ------------------------------------------------------------------------

\* download_file without its except clauses: the fault reaches the caller
Failed_Raises(fault) == fault

\* What download_file gives its caller when it fails with fault: a non-200
\* status returns False, and every exception is caught and returns False.
Failed(fault) == "False"

\* the end of download task t: with True, or failed by fault
ReturnDownload(ts, q, t, fault) ==
    /\ tasks' = [ts EXCEPT ![t].st = "done", ![t].got = fault,
                           ![t].result = IF fault = "served" THEN "True" ELSE Failed(fault)]
    /\ ready' = NotifyParent(ts, q, t)

\* The first step of a download: the provisional file path and session.get,
\* which raises at once when the session has been closed.
DownloadStart ==
    /\ Running /\ ready # << >>
    /\ Head(ready).ev = "start" /\ tasks[Head(ready).t].kind = "download"
    /\ LET t == Head(ready).t
       IN  \E rnd \in { "00", "01" } :
              LET path == JoinPath(DOWNLOAD_DIR, DerivedName(tasks[t].url, rnd))
              IN  IF ~session_open
                  THEN ReturnDownload([tasks EXCEPT ![t].filepath = path,
                                                    ![t].provisional = path],
                                      Tail(ready), t, "closed")
                  ELSE /\ tasks' = [tasks EXCEPT ![t].st = "io", ![t].filepath = path,
                                                 ![t].provisional = path]
                       /\ ready' = Tail(ready)
    /\ UNCHANGED << cli, site, max_depth, phase, scraped_markdown, sitemap_data, visited_urls,
                    gets, files, tally, session_open, scan_got >>

\* A download resumes with the response: on a 200 the header may replace the
\* file path; the file is then opened for writing, which truncates it or
\* fails, as it always does for a directory, and the first chunk is awaited.
DownloadResponse ==
    /\ Running /\ ready # << >>
    /\ Head(ready).ev = "resume" /\ tasks[Head(ready).t].kind = "download"
    /\ ~tasks[Head(ready).t].opened
    /\ LET t    == Head(ready).t
           page == Serve(site, tasks[t].url)
           path == FinalPath(tasks[t].filepath, page.disposition)
           ts   == [tasks EXCEPT ![t].filepath = path]
       IN  IF Head(ready).resp # "served"
           THEN /\ ReturnDownload(tasks, Tail(ready), t, "error")
                /\ UNCHANGED files
           ELSE IF page.status # 200
           THEN /\ ReturnDownload(tasks, Tail(ready), t, "status")
                /\ UNCHANGED files
           ELSE \E disk \in { "ok", "OSError" } :
                   IF disk # "ok" \/ IsDirectory(path)
                   THEN /\ ReturnDownload(ts, Tail(ready), t, "OSError")
                        /\ UNCHANGED files
                   ELSE /\ files' = [p \in DOMAIN files \cup {path} |->
                                        IF p = path THEN << >> ELSE files[p]]
                        /\ tasks' = [ts EXCEPT ![t].st = "io", ![t].opened = TRUE]
                        /\ ready' = Tail(ready)
    /\ UNCHANGED << cli, site, max_depth, phase, scraped_markdown, sitemap_data, visited_urls,
                    gets, tally, session_open, scan_got >>

\* f.write(chunk) of the k-th chunk of a body: every open file object has its
\* own position, so the chunk lands at the k-th place of the file whatever
\* others have written or truncated meanwhile; places skipped are holes,
\* the chunk 0 of no URL
WriteAt(content, k, chunk) ==
    [i \in 1..(IF Len(content) > k THEN Len(content) ELSE k) |->
        IF i = k THEN chunk ELSE IF i <= Len(content) THEN content[i] ELSE << "", 0 >>]

\* A download resumes with a chunk: a chunk is written and the next awaited;
\* the empty chunk ends the loop and the download returns True.
DownloadChunk ==
    /\ Running /\ ready # << >>
    /\ Head(ready).ev = "resume" /\ tasks[Head(ready).t].kind = "download"
    /\ tasks[Head(ready).t].opened
    /\ LET t    == Head(ready).t
           page == Serve(site, tasks[t].url)
       IN  IF Head(ready).resp # "served"
           THEN /\ ReturnDownload(tasks, Tail(ready), t, "error")
                /\ UNCHANGED files
           ELSE IF tasks[t].pos < page.chunks
           THEN /\ files' = [files EXCEPT ![tasks[t].filepath] =
                                WriteAt(@, tasks[t].pos + 1,
                                        << tasks[t].url, tasks[t].pos + 1 >>)]
                /\ tasks' = [tasks EXCEPT ![t].st = "io", ![t].pos = @ + 1]
                /\ ready' = Tail(ready)
           ELSE /\ ReturnDownload([tasks EXCEPT ![t].eof = TRUE], Tail(ready), t, "served")
                /\ UNCHANGED files
    /\ UNCHANGED << cli, site, max_depth, phase, scraped_markdown, sitemap_data, visited_urls,
                    gets, tally, session_open, scan_got >>

\* ------------------------------------------------------------------------
\* cli.py
\* ------------------------------------------------------------------------

\* main after asyncio.run(scrape_website(...)) has returned text and sitemap:
\* what it prints and whether it calls save_sitemap.  client is how the
\* initialisation of the AI client goes, extracted what the AI returns, disk
\* how the write of save_sitemap goes.
cli_main(text, sitemap, client, extracted, disk) ==
    IF text = "None"
    THEN [done |-> TRUE, said |-> { "Failed to scrape" }, save |-> "none"]
    ELSE IF client # "ok"
    THEN [done |-> TRUE, said |-> { "Scraping complete", "client error" }, save |-> "none"]
    ELSE IF sitemap # << >>
    THEN [done |-> TRUE,
          said |-> { "Scraping complete",
                     IF extracted = "data" THEN "Extracted Information"
                     ELSE "Failed to extract",
                     "Sitemap saved" },
          save |-> IF disk = "ok" THEN "written" ELSE "IOError"]
    ELSE [done |-> TRUE,
          said |-> { "Scraping complete",
                     IF extracted = "data" THEN "Extracted Information"
                     ELSE "Failed to extract",
                     "Sitemap warning" },
          save |-> "none"]

\* cli.py goes on after scrape_website has returned.
Report ==
    /\ phase = "returned" /\ ~cli.done
    /\ \E client \in { "ok", "error" }, extracted \in { "data", "None" },
          disk \in { "ok", "IOError" } :
          cli' = cli_main(scraped_markdown, sitemap_data, client, extracted, disk)
    /\ UNCHANGED << site, max_depth, phase, scraped_markdown, sitemap_data, tasks, ready,
                    visited_urls, gets, files, tally, session_open, scan_got >>

\* ------------------------------------------------------------------------
\* Specifications
\* ------------------------------------------------------------------------

\* one callback of the ready queue runs
RunReady ==
    \/ ScanResume
    \/ ScanWake
    \/ DownloadStart
    \/ DownloadResponse
    \/ DownloadChunk
    \/ CrawlStart
    \/ CrawlResume
    \/ ChildDone
    \/ CrawlWake

Next == TextDone \/ IOArrives \/ RunReady \/ Report

Spec == Init /\ [][Next]_vars

\* The event loop runs a ready callback when there is one, crawl4ai answers,
\* and every request is eventually answered or fails.
FairSpec == Spec /\ WF_vars(TextDone) /\ WF_vars(RunReady) /\ WF_vars(IOArrives)

\* ------------------------------------------------------------------------
\* Vocabulary of the properties
\* ------------------------------------------------------------------------

\* the crawl branches: the crawl tasks and the root branch inside Main
Branches == { t \in DOMAIN tasks : tasks[t].kind = "crawl" \/ t = Main }

Downloads == { t \in DOMAIN tasks : tasks[t].kind = "download" }

\* the URLs of the download tasks in the order of their creation
DownloadUrls ==
    LET ids == SelectSeq([i \in 1..Len(tasks) |-> i], LAMBDA i : tasks[i].kind = "download")
    IN  [k \in 1..Len(ids) |-> tasks[ids[k]].url]

\* the URLs crawl branches have requested
Fetched == { g.url : g \in BagToSet(gets) }

\* scheme://netloc+path of a URL
NormalForm(url) == Normalize(urlparse(url, ""))

\* scheme://netloc of a URL
Authority(url) == urlparse(url, "").scheme \o "://" \o urlparse(url, "").netloc

Netloc(url) == urlparse(url, "").netloc

\* what the crawl loop makes of the page at url of web s when nothing is
\* visited yet
LoopIn(s, url) == CrawlLoop(PageLinks(s, url), urlparse(Seed(s), "").netloc, {})

HtmlIn(s, url) == Serve(s, url).status = 200 /\ Serve(s, url).html

\* the link graph of web s: the URLs one hop from url
LinksIn(s, url) == IF HtmlIn(s, url) THEN Range(LoopIn(s, url).targets) ELSE {}

\* the URLs of web s within k hops of its seed
Hop(s, urls) == urls \cup UNION { LinksIn(s, u) : u \in urls }

RECURSIVE Reach(_, _)
Reach(s, k) == IF k = 0 THEN {Seed(s)} ELSE Hop(s, Reach(s, k - 1))

ReachTable == { << s, k, Reach(s, k) >> : s \in Sites, k \in 0..MaxDepth }

\* the URLs within k hops of the seed
Within(k) == (CHOOSE r \in ReachTable : r[1] = site /\ r[2] = k)[3]

\* every URL some web of Sites can lead a crawl to
AllUrls == UNION { Reach(s, MaxDepth + 1) : s \in Sites }

\* the pages that answer a crawl with HTML whose anchors all parse
GoodPages == { << s, u >> \in Sites \X AllUrls : HtmlIn(s, u) /\ ~LoopIn(s, u).raised }

\* the anchors of the seed page of web s, resolved, in document order; "" for
\* one whose resolution raises
SeedLinksIn(s) ==
    [i \in DOMAIN PageLinks(s, Seed(s)) |->
        IF PageLinks(s, Seed(s))[i].ok THEN PageLinks(s, Seed(s))[i].url ELSE ""]

\* the anchors of the seed page that precede the first one that raises
ReachedIn(s) ==
    { SeedLinksIn(s)[i] : i \in { k \in DOMAIN SeedLinksIn(s) :
                                    \A j \in 1..k : SeedLinksIn(s)[j] # "" } }

\* the URLs of AllUrls and of the seed pages, by netloc and by authority
UrlTable ==
    { << u, Netloc(u), Authority(u) >> :
        u \in AllUrls \cup UNION { Range(SeedLinksIn(s)) \ {""} : s \in Sites } }

NetlocOf(u) == (CHOOSE r \in UrlTable : r[1] = u)[2]

AuthorityOf(u) == (CHOOSE r \in UrlTable : r[1] = u)[3]

Returned == phase = "returned"

\* C1: no crawl branch deeper than max_depth requests a page, and no URL
\* further than max_depth hops from the seed is visited or returned.
DepthBound ==
    /\ \A g \in BagToSet(gets) : g.depth <= max_depth
    /\ visited_urls \subseteq Within(max_depth)
    /\ Returned => Range(sitemap_data) \subseteq Within(max_depth)

\* a crawl of the cyclic site to depth 1 has returned: the page two hops away
\* was reached by a branch at depth 2, which ended without requesting it
DepthBoundWitness ==
    /\ Returned /\ site = "cycle" /\ max_depth = 1
    /\ Len(sitemap_data) = 3
    /\ "https://example.com/c" \notin Range(sitemap_data)
    /\ \E t \in Branches : /\ tasks[t].url = "https://example.com/c"
                           /\ tasks[t].depth = 2 /\ tasks[t].st = "done"

\* C2: the run returns, and the visited set only grows.
Termination ==
    /\ <>Returned
    /\ [][visited_urls \subseteq visited_urls']_vars

\* the crawl of the cyclic site has returned with all four pages visited
TerminationWitness ==
    /\ Returned /\ site = "cycle" /\ max_depth >= 2
    /\ Cardinality(visited_urls) = 4

\* C3: no two entries of the returned sitemap normalize to the same URL.
NoDuplicateNormalized ==
    Returned =>
        \A i, j \in DOMAIN sitemap_data :
            i # j => NormalForm(sitemap_data[i]) # NormalForm(sitemap_data[j])

\* C4: the returned list holds exactly the visited set, in strictly ascending
\* order.
SitemapIsVisitedSet ==
    Returned =>
        /\ Range(sitemap_data) = visited_urls
        /\ Len(sitemap_data) = Cardinality(visited_urls)
        /\ \A i \in 1..(Len(sitemap_data) - 1) : StrLess(sitemap_data[i], sitemap_data[i + 1])

SameNetlocTable ==
    { << s, { NormalForm(u) : u \in { v \in ReachedIn(s) :
                                        /\ Netloc(v) = Netloc(Seed(s))
                                        /\ urlparse(v, "").fragment = "" } } >> : s \in Sites }

\* the webs whose seed page answers a crawl with HTML
HtmlSeeds == { s \in Sites : HtmlIn(s, Seed(s)) }

SeedLinksOfNetloc == (CHOOSE r \in SameNetlocTable : r[1] = site)[2]

SampleRun ==
    /\ Returned /\ site = "sample" /\ max_depth = 1
    /\ scan_got = "served" /\ tasks[Main].got = "served"

\* C6 as stated: the sample scenario yields the seed and /about, one download
\* attempt, and no request to other.com.
SampleScenario ==
    SampleRun =>
        /\ sitemap_data = << "https://example.com/", "https://example.com/about" >>
        /\ DownloadUrls = << "https://example.com/report.pdf" >>
        /\ \A u \in Fetched : NetlocOf(u) # "other.com"

\* C6 as amended: the sitemap holds report.pdf too, which has the seed's
\* netloc; one download attempt, and no request to other.com.
SampleScenarioWithFile ==
    SampleRun =>
        /\ sitemap_data = << "https://example.com/", "https://example.com/about",
                             "https://example.com/report.pdf" >>
        /\ DownloadUrls = << "https://example.com/report.pdf" >>
        /\ \A u \in Fetched : NetlocOf(u) # "other.com"

\* the sample scenario has run, the file link was both downloaded and crawled
SampleWitness ==
    /\ SampleRun
    /\ Len(DownloadUrls) = 1
    /\ "https://example.com/report.pdf" \in Fetched

\* the last component of a path
LastComponent(path) == Split(path, "/")[Len(Split(path, "/"))]

\* the extension of a path as the specification means it: from the last dot
\* of the last component, the dots that begin the component not counted
ExtensionOf(path) ==
    LET name == LastComponent(path)
        dots == { i \in 1..Len(name) :
                    Char(name, i) = "." /\ \E j \in 1..(i - 1) : Char(name, j) # "." }
    IN  IF dots = {} THEN ""
        ELSE From(name, CHOOSE i \in dots : \A j \in dots : j <= i)

\* a link the download scan is to download
Qualifies(link) ==
    /\ link # ""
    /\ Lower(ExtensionOf(urlparse(link, "").path)) \in TARGET_EXTENSIONS
    /\ urlparse(link, "").scheme \in { "http", "https" }

\* for every web whose seed page answers 200, the links of that page that
\* qualify, in document order
QualifyingTable ==
    { << s, SelectSeq(SeedLinksIn(s), Qualifies) >> :
        s \in { w \in Sites : Serve(w, Seed(w)).status = 200 } }

\* the download scan has read the page
Scanned == scan_got = "served" /\ \E r \in QualifyingTable : r[1] = site

\* C7: the scan dispatches a download for exactly the links whose extension,
\* case-insensitively and without the query, is a target extension and whose
\* scheme is http or https; of a.pdf, b.PDF, c.html, d.zip?x=1 three are tried.
ExtensionFilterExact ==
    /\ Scanned => << site, DownloadUrls >> \in QualifyingTable
    /\ (Scanned /\ site = "files")
       => DownloadUrls = << "https://example.com/dl/a.pdf", "https://example.com/dl/b.PDF",
                            "https://example.com/dl/d.zip?x=1" >>

\* C8: a download that has ended has ended with True or False, True exactly
\* when it received its whole body; when the batch is tallied every download
\* has ended, success + fail is the number dispatched, and success counts the
\* downloads that received their whole body.
TallyIsExact ==
    /\ \A t \in Downloads :
          tasks[t].st = "done" =>
              /\ tasks[t].result \in { "True", "False" }
              /\ tasks[t].result = "True"
                    <=> (tasks[t].eof /\ tasks[t].pos = Serve(site, tasks[t].url).chunks)
    /\ tally.done =>
          /\ \A t \in Downloads : tasks[t].st = "done"
          /\ tally.n = Cardinality(Downloads)
          /\ tally.success + tally.fail = tally.n
          /\ tally.success = Cardinality({ t \in Downloads : tasks[t].eof })

\* a batch of three was tallied: one download hit a network error, one a
\* non-200 status, and one succeeded
TallyWitness ==
    /\ tally.done /\ tally.n = 3
    /\ tally.success = 1 /\ tally.fail = 2
    /\ \E t \in Downloads : tasks[t].got = "error"
    /\ \E t \in Downloads : tasks[t].got = "status"

\* every request of a crawl branch was answered with an HTML page whose
\* anchors all parse
AllFetchesHtml ==
    \A t \in Branches :
        tasks[t].got # "none" =>
            /\ tasks[t].got = "served"
            /\ << site, tasks[t].url >> \in GoodPages

\* C9: for a seed with a netloc, with depth 0 the sitemap is the seed alone,
\* and when every fetch succeeds with HTML every URL within max_depth hops is
\* in the sitemap.
CompleteToDepth ==
    (Returned /\ base_domain # "" /\ AllFetchesHtml) =>
        /\ max_depth = 0 => sitemap_data = << start_url >>
        /\ Within(max_depth) \subseteq Range(sitemap_data)

\* the number of requests crawl branches have made for url
GetCount(url) ==
    LET gs == { g \in BagToSet(gets) : g.url = url }
    IN  IF gs = {} THEN 0
        ELSE IF Cardinality(gs) = 1 THEN CopiesIn(CHOOSE g \in gs : TRUE, gets)
        ELSE 2

\* C10: no URL is requested twice by the crawl branches of one run.
FetchedOnce == \A u \in Fetched : GetCount(u) = 1

\* two pages have each created a task for the same URL before either task
\* ran; one task requested it and the other ended at the visited check
FetchedOnceWitness ==
    \E t1, t2 \in Branches :
        /\ tasks[t1].url = tasks[t2].url
        /\ tasks[t1].parent # tasks[t2].parent
        /\ tasks[t1].got # "none"
        /\ tasks[t2].st = "done" /\ tasks[t2].ret = {}
        /\ tasks[t2].depth <= max_depth

\* the crawl targets of every page that answers with HTML whose anchors all
\* parse, when nothing is visited yet
ChildrenTable ==
    { << r[1], r[2], LinksIn(r[1], r[2]) >> :
        r \in { q \in LinkTable : << q[1], q[2] >> \in GoodPages } }

\* the URLs the page at u hands to its parent besides itself; a page whose
\* fetch is in bad contributes none
Children(s, u, bad) ==
    IF u \notin bad /\ \E r \in ChildrenTable : r[1] = s /\ r[2] = u
    THEN (CHOOSE r \in ChildrenTable : r[1] = s /\ r[2] = u)[3]
    ELSE {}

\* the sitemap of web s to depth k when the fetches of bad fail and every
\* response arrives in the order of its request: each URL is then first
\* reached at its least depth
RECURSIVE InRequestOrder(_, _, _)
InRequestOrder(s, k, bad) ==
    IF k = 0 THEN {Seed(s)}
    ELSE LET prev == InRequestOrder(s, k - 1, bad)
         IN  prev \cup UNION { Children(s, u, bad) : u \in prev }

\* the URLs whose fetch by a crawl branch failed
FailedFetches ==
    { tasks[t].url : t \in { b \in Branches : tasks[b].got \notin { "none", "served" } } }

\* C11: the returned sitemap is a function of the link graph, the fetch
\* outcomes and max_depth: whatever the completion order, it is the list the
\* run whose responses arrive in request order returns.
SitemapOrderIndependent ==
    (Returned /\ base_domain # "") =>
        Range(sitemap_data) = InRequestOrder(site, max_depth, FailedFetches)

\* the response to the download scan's request of the page
ScanPage == Serve(site, start_url)

\* C12: when the scan's request of the page fails, or is answered with a
\* status other than 200 or with a Content-Type that is not HTML, no download
\* task is ever created, whatever anchors the body holds.
NoDownloadUnlessHtml ==
    (scan_got # "none" /\ (scan_got # "served" \/ ScanPage.status # 200 \/ ~ScanPage.html))
        => Downloads = {}

\* the anchors of the page at url that resolve and parse, in document order
OkLinks(s, url) == SelectSeq(PageLinks(s, url), LAMBDA l : l.ok)

\* every internal anchor that resolves, on every HTML page a branch above the
\* depth limit was served, is in the returned sitemap
MalformedSkippedByCrawl ==
    \A t \in Branches :
        (tasks[t].got = "served" /\ HtmlIn(site, tasks[t].url) /\ tasks[t].depth < max_depth)
            => \A l \in Range(OkLinks(site, tasks[t].url)) :
                  IsInternal(l.parsed, base_domain)
                      => Normalize(l.parsed) \in Range(sitemap_data)

\* the anchors of the scanned page that resolve and are download targets
ScanQualifying == SelectSeq(OkLinks(site, start_url), LAMBDA l : IsDownloadTarget(l.parsed))

\* every download target that resolves on the scanned page has its download
\* task, and the batch was tallied
MalformedSkippedByScan ==
    (scan_got = "served" /\ ScanPage.status = 200)
        => /\ DownloadUrls = [i \in DOMAIN ScanQualifying |-> ScanQualifying[i].url]
           /\ ScanQualifying # << >> => (tally.done /\ tally.n = Len(ScanQualifying))

\* C13: an href that fails to resolve or parse costs only its own link: when
\* the run returns, the other internal links of each crawled page are in the
\* sitemap, and the other target links of the scanned page were downloaded
\* and tallied.
MalformedHrefSkipsOneLink ==
    Returned => (MalformedSkippedByCrawl /\ MalformedSkippedByScan)

\* whether crawl task t has ended and its parent has taken its result from
\* asyncio.gather
Collected(t) ==
    /\ tasks[t].st = "done"
    /\ tasks[tasks[t].parent].st = "done"
    /\ t \in Range(tasks[tasks[t].parent].kids)

\* C14: once the download scan is over every download task has ended and was
\* tallied, and once generate_sitemap has returned every crawl task has ended
\* and its parent has collected its result.
NothingLeftBehind ==
    /\ phase \in { "crawl", "returned" }
          => \A t \in Downloads : tasks[t].st = "done" /\ tally.done
    /\ Returned => \A t \in Branches \ {Main} : Collected(t)

\* the branches that created task t, directly or through their descendants
RECURSIVE Ancestors(_)
Ancestors(t) ==
    IF tasks[t].parent = 0 THEN {}
    ELSE {tasks[t].parent} \cup Ancestors(tasks[t].parent)

\* the crawl branches of the subtree of branch b
Subtree(b) == { t \in Branches : t = b \/ b \in Ancestors(t) }

\* whether branch t got past the depth and visited checks and took its URL
Claimed(t) ==
    \/ tasks[t].st \in { "io", "queued", "gather" }
    \/ tasks[t].st = "done" /\ tasks[t].ret # {}

\* the URLs the subtree of branch b has discovered
Discovered(b) == { tasks[t].url : t \in { d \in Subtree(b) : Claimed(d) } }

\* whether the fetch of branch t has failed: no response, or one that is not
\* a 200 with HTML
FetchFailed(t) ==
    /\ tasks[t].got # "none"
    /\ tasks[t].got # "served" \/ ~HtmlIn(site, tasks[t].url)

\* C15: a branch whose fetch fails returns its own URL alone and has no
\* descendants, and when the run returns everything the subtrees of its
\* siblings have discovered is in the sitemap.
FailureIsolated ==
    /\ \A t \in Branches :
          FetchFailed(t) =>
              /\ tasks[t].st = "done" /\ tasks[t].ret = {tasks[t].url}
              /\ \A c \in Branches : tasks[c].parent # t
    /\ Returned =>
          \A t \in Branches \ {Main} :
              FetchFailed(t) =>
                  \A b \in Branches \ {Main, t} :
                      tasks[b].parent = tasks[t].parent
                          => Discovered(b) \subseteq Range(sitemap_data)

\* whether a resolved anchor of the page at url points into that page itself:
\* it has a fragment and is otherwise the URL of the page
FragmentOnly(l, url) ==
    l.parsed.fragment # "" /\ RequestTarget(l.url) = RequestTarget(url)

\* C16: a link of the seed's netloc that carries a fragment and leads to
\* another page is crawled under its normalized form: when the run returns it
\* is in the sitemap, for every HTML page a branch above the depth limit was
\* served.
FragmentLinksCrawled ==
    Returned =>
        \A t \in Branches :
            (tasks[t].got = "served" /\ HtmlIn(site, tasks[t].url)
                /\ tasks[t].depth < max_depth)
                => \A l \in Range(OkLinks(site, tasks[t].url)) :
                      (/\ l.parsed.netloc = base_domain
                       /\ l.parsed.fragment # ""
                       /\ ~FragmentOnly(l, tasks[t].url))
                          => Normalize(l.parsed) \in Range(sitemap_data)

\* the complete body of the download of task t, chunk by chunk
Body(t) == [i \in 1..Serve(site, tasks[t].url).chunks |-> << tasks[t].url, i >>]

\* C17: when two downloads of different URLs into the same file have both
\* returned True, the file holds the complete body of one of them.
CollisionLastWriterWins ==
    \A a, b \in Downloads :
        (/\ tasks[a].url # tasks[b].url
         /\ tasks[a].filepath = tasks[b].filepath
         /\ tasks[a].result = "True" /\ tasks[b].result = "True")
            => files[tasks[a].filepath] \in { Body(a), Body(b) }

\* C18: no two download tasks of a scan are for the same URL, however many
\* anchors of the page point to it.
OneAttemptPerTarget ==
    \A a, b \in Downloads : tasks[a].url = tasks[b].url => a = b

\* C19: for a seed without a netloc nothing is ever visited or requested and
\* no crawl task is created, and once generate_sitemap has been called it has
\* returned the empty list.
InvalidSeedReturnsEmpty ==
    base_domain = "" =>
        /\ visited_urls = {} /\ gets = EmptyBag
        /\ Branches = {Main} /\ tasks[Main].got = "none"
        /\ phase # "text" => (Returned /\ sitemap_data = << >>)

\* the run on the seed without a netloc has returned the empty list
InvalidSeedWitness ==
    /\ Returned /\ urlparse(start_url, "").netloc = ""
    /\ sitemap_data = << >> /\ visited_urls = {} /\ gets = EmptyBag

\* the download scan's request of the page failed
ScanFailed ==
    \/ scan_got \in { "error", "invalid" }
    \/ scan_got = "served" /\ ScanPage.status # 200

\* the text scrape, the scan's request and the crawl's request of the seed
\* have all failed
AllFailed ==
    /\ scraped_markdown = "None"
    /\ ScanFailed
    /\ base_domain = "" \/ FetchFailed(Main)

\* whatever the text scrape and the scan's request came to, a run that has
\* returned has made the scan's request and, for a seed with a netloc, has
\* had the crawl's request of the seed answered
RanAllThree ==
    Returned =>
        /\ scan_got # "none"
        /\ base_domain # "" => tasks[Main].got # "none"

\* C20 as stated: the run returns, every part runs whatever became of the
\* parts before it, and when all fail the result is no text and the empty
\* sitemap.
ScrapeReturnsNothingFound ==
    /\ <>Returned
    /\ []RanAllThree
    /\ []((Returned /\ AllFailed) => (scraped_markdown = "None" /\ sitemap_data = << >>))

\* C20 as amended: the run returns, every part runs whatever became of the
\* parts before it, and when all fail the result is no text and the seed
\* alone as sitemap, the empty sitemap for a seed without a netloc.
ScrapeReturnsSeedAlone ==
    /\ <>Returned
    /\ []RanAllThree
    /\ []((Returned /\ AllFailed) =>
            /\ scraped_markdown = "None"
            /\ sitemap_data = IF base_domain = "" THEN << >> ELSE << start_url >>)

\* a run on a seed with a netloc has returned after the text scrape, the
\* scan's request and the crawl's request of the seed had each failed
AllFailedWitness ==
    /\ Returned /\ AllFailed /\ base_domain # ""
    /\ scan_got = "error" /\ tasks[Main].got = "error"
    /\ sitemap_data = << start_url >>

\* C21: once cli.py is through, a sitemap that is not empty was handed to
\* save_sitemap and an empty one was warned about, and the text was reported
\* when there is one and its absence when there is none, each whatever the
\* other is.
ReportsEachOutput ==
    cli.done =>
        /\ sitemap_data # << >> => cli.save # "none"
        /\ sitemap_data = << >> => "Sitemap warning" \in cli.said
        /\ scraped_markdown # "None" => "Scraping complete" \in cli.said
        /\ scraped_markdown = "None" => "Failed to scrape" \in cli.said

\* the components of a path with "." dropped and ".." taking back the
\* component before it, as the file system resolves the path from the
\* working directory
RECURSIVE Collapse(_, _)
Collapse(segs, acc) ==
    IF segs = << >> THEN acc
    ELSE IF Head(segs) \in { "", "." } THEN Collapse(Tail(segs), acc)
    ELSE IF Head(segs) = ".." /\ acc # << >> /\ acc[Len(acc)] # ".."
    THEN Collapse(Tail(segs), SubSeq(acc, 1, Len(acc) - 1))
    ELSE Collapse(Tail(segs), Append(acc, Head(segs)))

OnDisk(path) == Collapse(Split(path, "/"), << >>)

\* the path names an entry of the target directory itself
DirectChild(path) == Len(OnDisk(path)) = 2 /\ OnDisk(path)[1] = DOWNLOAD_DIR

\* the path leads out of the target directory
Outside(path) == OnDisk(path) = << >> \/ OnDisk(path)[1] # DOWNLOAD_DIR

\* the downloads whose response gave them a path other than the provisional one
Renamed == { t \in Downloads : tasks[t].filepath # tasks[t].provisional }

\* every file on disk is a direct child of the target directory, and the
\* provisional path of a renamed download is on disk only if another
\* download opened it
WritesStayInTargetDir ==
    /\ \A p \in DOMAIN files : DirectChild(p)
    /\ \A t \in Renamed :
          tasks[t].provisional \in DOMAIN files =>
              \E u \in Downloads \ {t} : tasks[u].opened /\ tasks[u].filepath = tasks[t].provisional

\* C22: every file a download creates or writes is a direct child of the
\* target directory, the file path of a download never resolves outside the
\* target directory whatever the URL and the header, and a download the
\* header renamed never creates its provisional path.
FilesStayInTargetDir ==
    /\ WritesStayInTargetDir
    /\ \A t \in Downloads : tasks[t].filepath # "" => ~Outside(tasks[t].filepath)

====
